---------------------------- MODULE Spec2Model ----------------------------
(***************************************************************************)
(* Hybrid retrieval of edge-rag: src/src/retriever.py, search_documents    *)
(* and generate_embedding, as called from src/src/app.py.                  *)
(*                                                                         *)
(* One query is one run of search_documents.  Every call that leaves the   *)
(* process (ollama.embeddings, client.collection_exists, client.search,    *)
(* word_tokenize, BM25Okapi) is a step whose outcome is chosen             *)
(* nondeterministically: a value, or an exception.                         *)
(*                                                                         *)
(* Python dicts are functions whose DOMAIN is the set of keys present, so  *)
(* d.get(k, default) is Get(d, k, default) and a missing key is a key      *)
(* outside the DOMAIN.  Scores are fixed point: dense and lexical scores   *)
(* in 1/100, the language weight in 1/10, the fused key in 1/1000.         *)
(*                                                                         *)
(* Spec is one query through search_documents.  It keeps the length of the *)
(* query vector only, since search_documents does nothing with the vector  *)
(* but hand it to client.search; SpecEmbed is generate_embedding on its    *)
(* own and keeps the endpoint's answer and the returned list in full.      *)
(***************************************************************************)
EXTENDS Integers, Sequences, FiniteSets, TLC

VARIABLES
    pc,              \* position in search_documents / how it ended
    language,        \* the language argument
    response,        \* response["embedding"] inside generate_embedding
    query_vector,    \* the list generate_embedding returns
    vector_size,     \* len(query_vector) in search_documents
    collection,      \* collection_name, "" before line 123
    vector_results,  \* hits returned by client.search
    idx,             \* position of the for loop over vector_results
    retrieved_docs,  \* the list of candidate dicts
    seen_texts,      \* the set of texts already appended
    bm25_scores,     \* result of bm25.get_scores
    result,          \* the list handed back to the caller
    exists,          \* the answer of client.collection_exists
    calls,           \* how often each collaborator was invoked
    failure          \* the call that raised, "none" if none did

vars == <<pc, language, response, query_vector, vector_size, collection,
          vector_results, idx, retrieved_docs, seen_texts, bm25_scores,
          result, exists, calls, failure>>

---------------------------------------------------------------------------
(* Bounds of the model *)

\* longest hit list the vector store hands back in the model
MaxHits == 4
\* raw embeddings of length 0..MaxShort are tried
MaxShort == 3
\* raw embeddings of length expected_size - MaxDelta .. expected_size + MaxDelta
MaxDelta == 3

---------------------------------------------------------------------------
(* Configuration *)

\* app.py resolves the language to one of these two (detect_language, or
\* the select box lowered)
Languages == {"english", "arabic"}

EMBEDDING_SIZES == [english |-> 1024, arabic |-> 1024]

\* limit=20 of client.search
SEARCH_LIMIT == 20

collection_name(lang) == IF lang = "arabic" THEN "rag_docs_ar" ELSE "rag_docs_en"

\* weight_vector = 0.5 if language == "english" else 1.2, in tenths
weight_vector(lang) == IF lang = "english" THEN 5 ELSE 12

Get(d, k, default) == IF k \in DOMAIN d THEN d[k] ELSE default

EmptyDict == <<>>

---------------------------------------------------------------------------
(* generate_embedding *)

Zeros(n) == [i \in 1..n |-> 0]

\* np.pad(embedding, (0, expected_size - len(embedding)), 'constant')
PadRight(embedding, expected_size) ==
    embedding \o Zeros(expected_size - Len(embedding))

\* embedding[:expected_size]
Truncate(embedding, expected_size) == SubSeq(embedding, 1, expected_size)

\* variant: a short embedding is returned as it came
generate_embedding_nopad(embedding, lang) ==
    LET expected_size == EMBEDDING_SIZES[lang]
    IN  IF Len(embedding) > expected_size
        THEN Truncate(embedding, expected_size)
        ELSE embedding

\* lines 92-100, applied to response["embedding"]
generate_embedding(embedding, lang) ==
    LET expected_size == EMBEDDING_SIZES[lang]
    IN  IF Len(embedding) < expected_size
        THEN PadRight(embedding, expected_size)
        ELSE IF Len(embedding) > expected_size
             THEN Truncate(embedding, expected_size)
             ELSE embedding

\* A raw embedding of length n whose elements follow a pattern chosen by
\* seed; the values are -2 .. 2.
RawEmbedding(n, seed) == [i \in 1..n |-> ((i * seed) % 5) - 2]

Seeds == {1, 2, 3, 4}

ExpectedSizes == {EMBEDDING_SIZES[l] : l \in Languages}

RawLengths ==
    (0..MaxShort) \cup
    UNION {(e - MaxDelta)..(e + MaxDelta) : e \in ExpectedSizes}

\* what the embedding endpoint can answer with
RawEmbeddings == {RawEmbedding(n, seed) : n \in RawLengths, seed \in Seeds}

---------------------------------------------------------------------------
(* The vector store's answers *)

FullMeta == [source |-> "a.txt", chunk_id |-> 3, total_chunks |-> 7,
             language |-> "arabic", key_phrases |-> <<"ai">>]

\* Hits the store can return.  A hit is [score, payload]; a hit without the
\* payload key is a hit whose payload is None.
HitPool ==
    { [score |-> 90, payload |-> [text |-> "A", metadata |-> FullMeta]],
      [score |-> 95, payload |-> [text |-> "A", metadata |-> [source |-> "b.txt"]]],
      [score |-> 85, payload |-> [text |-> "B", metadata |-> EmptyDict]],
      [score |-> 85, payload |-> [metadata |-> [source |-> "c.txt"]]],
      [score |-> 40, payload |-> [text |-> "C"]],
      [score |-> 70] }

HitLists == UNION {[1..n -> HitPool] : n \in 0..MaxHits}

\* lexical scores BM25 can give one document
LexScores == {0, 5, 10, 50}

NoCalls == [embed |-> 0, exists |-> 0, search |-> 0, tokenize |-> 0,
            bm25 |-> 0, get_scores |-> 0, sort |-> 0]

Bump(c, k) == [c EXCEPT ![k] = @ + 1]

---------------------------------------------------------------------------
(* search_documents *)

Init ==
    /\ pc = "start"
    /\ language \in Languages
    /\ response = <<>>
    /\ query_vector = <<>>
    /\ vector_size = 0
    /\ collection = ""
    /\ vector_results = <<>>
    /\ idx = 0
    /\ retrieved_docs = <<>>
    /\ seen_texts = {}
    /\ bm25_scores = <<>>
    /\ result = <<>>
    /\ exists = "unchecked"
    /\ calls = NoCalls
    /\ failure = "none"

\* lines 122-123 -> 88-100: the endpoint answers, the vector is normalised,
\* the collection is chosen
EmbeddingOk ==
    /\ pc = "start"
    /\ \E raw \in RawEmbeddings :
          vector_size' = Len(generate_embedding(raw, language))
    /\ collection' = collection_name(language)
    /\ calls' = Bump(calls, "embed")
    /\ pc' = "embedded"
    /\ UNCHANGED <<language, response, query_vector, vector_results, idx,
                   retrieved_docs, seen_texts, bm25_scores, result, exists,
                   failure>>

\* variant: the embedding error is swallowed and [] returned
EmbeddingFailsReturnsEmpty ==
    /\ pc = "start"
    /\ calls' = Bump(calls, "embed")
    /\ failure' = "embedding"
    /\ result' = <<>>
    /\ pc' = "returned"
    /\ UNCHANGED <<language, response, query_vector, vector_size,
                   collection, vector_results, idx, retrieved_docs,
                   seen_texts, bm25_scores, exists>>

\* line 122 -> 88: ollama.embeddings raises; nothing catches it
EmbeddingFails ==
    /\ pc = "start"
    /\ calls' = Bump(calls, "embed")
    /\ failure' = "embedding"
    /\ pc' = "raised"
    /\ UNCHANGED <<language, response, query_vector, vector_size,
                   collection, vector_results, idx, retrieved_docs,
                   seen_texts, bm25_scores, result, exists>>

\* line 125: the collection exists
CollectionFound ==
    /\ pc = "embedded"
    /\ exists' = "yes"
    /\ calls' = Bump(calls, "exists")
    /\ pc' = "search"
    /\ UNCHANGED <<language, response, query_vector, vector_size,
                   collection, vector_results, idx, retrieved_docs,
                   seen_texts, bm25_scores, result, failure>>

\* variant: the missing collection is searched all the same
CollectionMissingSearches ==
    /\ pc = "embedded"
    /\ exists' = "no"
    /\ calls' = Bump(calls, "exists")
    /\ pc' = "search"
    /\ UNCHANGED <<language, response, query_vector, vector_size,
                   collection, vector_results, idx, retrieved_docs,
                   seen_texts, bm25_scores, result, failure>>

\* lines 125-127: the collection does not exist, return []
CollectionMissing ==
    /\ pc = "embedded"
    /\ exists' = "no"
    /\ calls' = Bump(calls, "exists")
    /\ result' = <<>>
    /\ pc' = "returned"
    /\ UNCHANGED <<language, response, query_vector, vector_size,
                   collection, vector_results, idx, retrieved_docs,
                   seen_texts, bm25_scores, failure>>

\* line 125: client.collection_exists raises; the call stands before the
\* try of line 134, so nothing catches it
CollectionCheckFails ==
    /\ pc = "embedded"
    /\ calls' = Bump(calls, "exists")
    /\ failure' = "collection_exists"
    /\ pc' = "raised"
    /\ UNCHANGED <<language, response, query_vector, vector_size,
                   collection, vector_results, idx, retrieved_docs,
                   seen_texts, bm25_scores, result, exists>>

\* lines 135-141: client.search answers with at most limit hits
SearchOk ==
    /\ pc = "search"
    /\ \E hits \in HitLists :
          /\ Len(hits) <= SEARCH_LIMIT
          /\ vector_results' = hits
    /\ calls' = Bump(calls, "search")
    /\ idx' = 1
    /\ pc' = "loop"
    /\ UNCHANGED <<language, response, query_vector, vector_size,
                   collection, retrieved_docs, seen_texts, bm25_scores,
                   result, exists, failure>>

\* lines 135-141, 160-162: client.search raises, return []
SearchFails ==
    /\ pc = "search"
    /\ calls' = Bump(calls, "search")
    /\ failure' = "search"
    /\ result' = <<>>
    /\ pc' = "returned"
    /\ UNCHANGED <<language, response, query_vector, vector_size,
                   collection, vector_results, idx, retrieved_docs,
                   seen_texts, bm25_scores, exists>>

\* hit.payload is None: hit.payload.get raises AttributeError
PayloadIsNone(hit) == "payload" \notin DOMAIN hit

\* line 145
doc_text(hit) == Get(hit.payload, "text", "")

\* lines 147-155: the candidate dict of a hit
MakeDoc(hit, lang) ==
    LET metadata == Get(hit.payload, "metadata", EmptyDict)
    IN  [text         |-> doc_text(hit),
         score        |-> hit.score,
         source       |-> Get(metadata, "source", "Unknown"),
         chunk_id     |-> Get(metadata, "chunk_id", 0),
         total_chunks |-> Get(metadata, "total_chunks", 1),
         language     |-> Get(metadata, "language", lang),
         key_phrases  |-> Get(metadata, "key_phrases", <<>>)]

\* variant: a later hit with a seen text replaces the candidate
AppendKeepLast(docs, seen, hit, lang) ==
    IF doc_text(hit) \notin seen
    THEN Append(docs, MakeDoc(hit, lang))
    ELSE [i \in 1..Len(docs) |->
             IF docs[i].text = doc_text(hit) THEN MakeDoc(hit, lang)
             ELSE docs[i]]

\* lines 146-155: retrieved_docs after one pass of the loop body
AppendIfNew(docs, seen, hit, lang) ==
    IF doc_text(hit) \notin seen
    THEN Append(docs, MakeDoc(hit, lang))
    ELSE docs

\* lines 144-156: one pass of the for loop over a readable hit
LoopStep ==
    /\ pc = "loop"
    /\ idx <= Len(vector_results)
    /\ ~PayloadIsNone(vector_results[idx])
    /\ retrieved_docs' =
          AppendIfNew(retrieved_docs, seen_texts, vector_results[idx], language)
    /\ seen_texts' = seen_texts \cup {doc_text(vector_results[idx])}
    /\ idx' = idx + 1
    /\ UNCHANGED <<pc, language, response, query_vector, vector_size,
                   collection, vector_results, bm25_scores, result, exists,
                   calls, failure>>

\* lines 145, 160-162: reading the hit raises, return []
LoopRaises ==
    /\ pc = "loop"
    /\ idx <= Len(vector_results)
    /\ PayloadIsNone(vector_results[idx])
    /\ failure' = "read_hit"
    /\ result' = <<>>
    /\ pc' = "returned"
    /\ UNCHANGED <<language, response, query_vector, vector_size,
                   collection, vector_results, idx, retrieved_docs,
                   seen_texts, bm25_scores, exists, calls>>

\* variant: the BM25 block is entered without the test of line 165
LoopExitAlwaysReranks ==
    /\ pc = "loop"
    /\ idx > Len(vector_results)
    /\ pc' = "rerank"
    /\ UNCHANGED <<language, response, query_vector, vector_size,
                   collection, vector_results, idx, retrieved_docs,
                   seen_texts, bm25_scores, result, exists, calls, failure>>

\* lines 158, 165: the loop is over and there are candidates
LoopExitToRerank ==
    /\ pc = "loop"
    /\ idx > Len(vector_results)
    /\ retrieved_docs # <<>>
    /\ pc' = "rerank"
    /\ UNCHANGED <<language, response, query_vector, vector_size,
                   collection, vector_results, idx, retrieved_docs,
                   seen_texts, bm25_scores, result, exists, calls, failure>>

\* lines 165, 184: no candidates, the if is skipped, return retrieved_docs
LoopExitEmpty ==
    /\ pc = "loop"
    /\ idx > Len(vector_results)
    /\ retrieved_docs = <<>>
    /\ result' = retrieved_docs
    /\ pc' = "returned"
    /\ UNCHANGED <<language, response, query_vector, vector_size,
                   collection, vector_results, idx, retrieved_docs,
                   seen_texts, bm25_scores, exists, calls, failure>>

---------------------------------------------------------------------------
(* BM25 re-ranking, lines 165-184 *)

\* line 179, the sort key: bm25_score * weight_vector + score, in 1/1000
fused(doc, lang) == (doc.bm25_score * weight_vector(lang)) + (doc.score * 10)

\* x goes behind every element whose key is at least its own
InsertStable(sorted_docs, x, lang) ==
    LET p == Cardinality({i \in 1..Len(sorted_docs) :
                             fused(sorted_docs[i], lang) >= fused(x, lang)})
    IN  SubSeq(sorted_docs, 1, p) \o <<x>>
            \o SubSeq(sorted_docs, p + 1, Len(sorted_docs))

\* x goes in front of the elements whose key equals its own
InsertBeforeEqual(sorted_docs, x, lang) ==
    LET p == Cardinality({i \in 1..Len(sorted_docs) :
                             fused(sorted_docs[i], lang) > fused(x, lang)})
    IN  SubSeq(sorted_docs, 1, p) \o <<x>>
            \o SubSeq(sorted_docs, p + 1, Len(sorted_docs))

\* x goes behind every element whose key is at most its own
InsertAscending(sorted_docs, x, lang) ==
    LET p == Cardinality({i \in 1..Len(sorted_docs) :
                             fused(sorted_docs[i], lang) <= fused(x, lang)})
    IN  SubSeq(sorted_docs, 1, p) \o <<x>>
            \o SubSeq(sorted_docs, p + 1, Len(sorted_docs))

\* variant: a descending sort that reverses the order of equal keys
RECURSIVE SortUnstable(_, _)
SortUnstable(docs, lang) ==
    IF docs = <<>> THEN <<>>
    ELSE InsertBeforeEqual(SortUnstable(SubSeq(docs, 1, Len(docs) - 1), lang),
                           docs[Len(docs)], lang)

\* variant: the sort without reverse=True
RECURSIVE SortAscending(_, _)
SortAscending(docs, lang) ==
    IF docs = <<>> THEN <<>>
    ELSE InsertAscending(SortAscending(SubSeq(docs, 1, Len(docs) - 1), lang),
                         docs[Len(docs)], lang)

\* variant: one candidate per fused score, the first one
SortDropsTies(docs, lang) ==
    LET keys == {fused(docs[i], lang) : i \in 1..Len(docs)}
        firsts == {i \in 1..Len(docs) :
                      \A j \in 1..(i - 1) : fused(docs[j], lang) # fused(docs[i], lang)}
        rank(i) == Cardinality({k \in keys : k > fused(docs[i], lang)}) + 1
    IN  [r \in 1..Cardinality(keys) |->
            docs[CHOOSE i \in firsts : rank(i) = r]]

\* line 179: sorted(retrieved_docs, key=fused, reverse=True); Python's sort
\* is stable and reverse=True keeps the order of elements with equal keys
RECURSIVE sorted(_, _)
sorted(docs, lang) ==
    IF docs = <<>> THEN <<>>
    ELSE InsertStable(sorted(SubSeq(docs, 1, Len(docs) - 1), lang),
                      docs[Len(docs)], lang)

\* lines 174-175: doc["bm25_score"] = bm25_scores[idx] for every doc
AssignScores(docs, scores) ==
    [i \in 1..Len(docs) |-> docs[i] @@ [bm25_score |-> scores[i]]]

\* lines 181-184: the except clause prints, then return retrieved_docs
LexicalFailure(call) ==
    /\ failure' = call
    /\ result' = retrieved_docs
    /\ pc' = "returned"
    /\ UNCHANGED <<language, response, query_vector, vector_size,
                   collection, vector_results, idx, retrieved_docs,
                   seen_texts, bm25_scores, exists>>

\* line 168: tokenize_text on every candidate text
TokenizeCorpusOk ==
    /\ pc = "rerank"
    /\ calls' = [calls EXCEPT !.tokenize = @ + Len(retrieved_docs)]
    /\ pc' = "bm25_init"
    /\ UNCHANGED <<language, response, query_vector, vector_size,
                   collection, vector_results, idx, retrieved_docs,
                   seen_texts, bm25_scores, result, exists, failure>>

\* line 168: tokenize_text raises on the k-th candidate text
TokenizeCorpusFails ==
    /\ pc = "rerank"
    /\ \E k \in 1..Len(retrieved_docs) :
          calls' = [calls EXCEPT !.tokenize = @ + k]
    /\ LexicalFailure("tokenize_corpus")

\* line 169: BM25Okapi(tokenized_corpus)
BuildBM25Ok ==
    /\ pc = "bm25_init"
    /\ calls' = Bump(calls, "bm25")
    /\ pc' = "tokenize_query"
    /\ UNCHANGED <<language, response, query_vector, vector_size,
                   collection, vector_results, idx, retrieved_docs,
                   seen_texts, bm25_scores, result, exists, failure>>

\* line 169: BM25Okapi raises (ZeroDivisionError on an all-empty corpus)
BuildBM25Fails ==
    /\ pc = "bm25_init"
    /\ calls' = Bump(calls, "bm25")
    /\ LexicalFailure("bm25_init")

\* line 171: tokenize_text(query, language)
TokenizeQueryOk ==
    /\ pc = "tokenize_query"
    /\ calls' = Bump(calls, "tokenize")
    /\ pc' = "get_scores"
    /\ UNCHANGED <<language, response, query_vector, vector_size,
                   collection, vector_results, idx, retrieved_docs,
                   seen_texts, bm25_scores, result, exists, failure>>

\* line 171: tokenize_text raises on the query
TokenizeQueryFails ==
    /\ pc = "tokenize_query"
    /\ calls' = Bump(calls, "tokenize")
    /\ LexicalFailure("tokenize_query")

\* line 172: bm25.get_scores gives one score per candidate
GetScoresOk ==
    /\ pc = "get_scores"
    /\ bm25_scores' \in [1..Len(retrieved_docs) -> LexScores]
    /\ calls' = Bump(calls, "get_scores")
    /\ pc' = "fuse"
    /\ UNCHANGED <<language, response, query_vector, vector_size,
                   collection, vector_results, idx, retrieved_docs,
                   seen_texts, result, exists, failure>>

\* line 172: bm25.get_scores raises
GetScoresFails ==
    /\ pc = "get_scores"
    /\ calls' = Bump(calls, "get_scores")
    /\ LexicalFailure("get_scores")

\* lines 174-179, 184: the scores are written into the dicts, the list is
\* sorted by the fused key and returned
FuseAndReturn ==
    /\ pc = "fuse"
    /\ retrieved_docs' = sorted(AssignScores(retrieved_docs, bm25_scores), language)
    /\ result' = retrieved_docs'
    /\ calls' = Bump(calls, "sort")
    /\ pc' = "returned"
    /\ UNCHANGED <<language, response, query_vector, vector_size,
                   collection, vector_results, idx, seen_texts, bm25_scores,
                   exists, failure>>

Next ==
    \/ EmbeddingOk
    \/ EmbeddingFails
    \/ CollectionFound
    \/ CollectionMissing
    \/ CollectionCheckFails
    \/ SearchOk
    \/ SearchFails
    \/ LoopStep
    \/ LoopRaises
    \/ LoopExitToRerank
    \/ LoopExitEmpty
    \/ TokenizeCorpusOk
    \/ TokenizeCorpusFails
    \/ BuildBM25Ok
    \/ BuildBM25Fails
    \/ TokenizeQueryOk
    \/ TokenizeQueryFails
    \/ GetScoresOk
    \/ GetScoresFails
    \/ FuseAndReturn

Spec == Init /\ [][Next]_vars


---------------------------------------------------------------------------
(* generate_embedding on its own: the endpoint's answer is the input *)

InitEmbed ==
    /\ pc = "embedding"
    /\ language \in Languages
    /\ response \in RawEmbeddings
    /\ query_vector = <<>>
    /\ vector_size = 0
    /\ collection = ""
    /\ vector_results = <<>>
    /\ idx = 0
    /\ retrieved_docs = <<>>
    /\ seen_texts = {}
    /\ bm25_scores = <<>>
    /\ result = <<>>
    /\ exists = "unchecked"
    /\ calls = Bump(NoCalls, "embed")
    /\ failure = "none"

\* lines 89-100: the answer is normalised and returned
EmbeddingReturns ==
    /\ pc = "embedding"
    /\ query_vector' = generate_embedding(response, language)
    /\ pc' = "embedding_returned"
    /\ UNCHANGED <<language, response, vector_size, collection,
                   vector_results, idx, retrieved_docs, seen_texts,
                   bm25_scores, result, exists, calls, failure>>

NextEmbed == EmbeddingReturns

SpecEmbed == InitEmbed /\ [][NextEmbed]_vars

---------------------------------------------------------------------------
(* Properties *)

\* the weights as the specification states them, in tenths
StatedWeight(lang) == IF lang = "english" THEN 5 ELSE 12

\* lexical_score * weight + dense_score, in 1/1000
StatedFused(doc) == (doc.bm25_score * StatedWeight(language)) + (doc.score * 10)

\* text of the n-th hit as the store returned it
HitText(n) == Get(vector_results[n].payload, "text", "")

\* n is the first hit carrying its text
IsFirstOccurrence(n) == \A m \in 1..(n - 1) : HitText(m) # HitText(n)

\* rank of the first hit whose text is t
FirstHit(t) ==
    CHOOSE n \in 1..Len(vector_results) : HitText(n) = t /\ IsFirstOccurrence(n)

Fused == pc = "returned" /\ calls.sort = 1

\* C1: whenever fusion ran, the returned list is in descending order of
\* lexical_score * weight + dense_score, weight 0.5 for english, 1.2 for arabic.
C1_FusionOrdering ==
    Fused =>
        \A i, j \in 1..Len(result) :
            i < j => StatedFused(result[i]) >= StatedFused(result[j])

\* the scenario of the specification: english, A, B, C with dense scores
\* 0.9, 0.85, 0.4 and lexical scores 0.1, 0.5, 0.05 come back as B, A, C
C1_Witness ==
    /\ Fused
    /\ language = "english"
    /\ Len(vector_results) = 3
    /\ <<HitText(1), HitText(2), HitText(3)>> = <<"A", "B", "C">>
    /\ [i \in 1..3 |-> vector_results[i].score] = <<90, 85, 40>>
    /\ bm25_scores = <<10, 50, 5>>
    /\ [i \in 1..3 |-> result[i].text] = <<"B", "A", "C">>
    /\ [i \in 1..3 |-> StatedFused(result[i])] = <<1100, 950, 425>>

\* C2: no two returned candidates share a text, and each returned candidate
\* carries the score and metadata of the first hit with its text.
C2_FirstOccurrenceKept ==
    pc = "returned" =>
        /\ \A i, j \in 1..Len(result) :
              result[i].text = result[j].text => i = j
        /\ \A i \in 1..Len(result) :
              \E n \in 1..Len(vector_results) :
                 LET payload == vector_results[n].payload
                     metadata == Get(payload, "metadata", EmptyDict)
                 IN  /\ IsFirstOccurrence(n)
                     /\ result[i].text = HitText(n)
                     /\ result[i].score = vector_results[n].score
                     /\ result[i].source = Get(metadata, "source", "Unknown")
                     /\ result[i].chunk_id = Get(metadata, "chunk_id", 0)
                     /\ result[i].total_chunks = Get(metadata, "total_chunks", 1)
                     /\ result[i].language = Get(metadata, "language", language)
                     /\ result[i].key_phrases = Get(metadata, "key_phrases", <<>>)

\* a later duplicate has the higher dense score and is still the one dropped
C2_Witness ==
    /\ pc = "returned"
    /\ failure = "none"
    /\ Len(vector_results) = 2
    /\ HitText(1) = HitText(2)
    /\ vector_results[1].score < vector_results[2].score
    /\ Len(result) = 1
    /\ result[1].score = vector_results[1].score

\* C3: the vector generate_embedding returns has exactly expected_size
\* elements, the raw elements first and zeros behind them.
C3_EmbeddingNormalised ==
    pc = "embedding_returned" =>
        LET expected_size == 1024   \* configured for english and for arabic
            n == Len(response)
        IN  /\ Len(query_vector) = expected_size
            /\ \A i \in 1..expected_size :
                  /\ i <= n => query_vector[i] = response[i]
                  /\ i > n => query_vector[i] = 0

\* the endpoint answered with an empty embedding
C3_Witness ==
    /\ pc = "embedding_returned"
    /\ Len(response) = 0
    /\ Len(query_vector) = 1024

VectorStoreFailures == {"collection_exists", "search", "read_hit"}

\* C4: an error of the vector store after the embedding was produced gives
\* an empty list and never raises; only an embedding failure raises.
C4_VectorStoreErrorsAreCaught ==
    /\ failure \in VectorStoreFailures => pc = "returned" /\ result = <<>>
    /\ pc = "raised" => failure = "embedding"

\* C5: when the embedding endpoint errors the query raises after exactly one
\* embedding call; the vector store and the lexical scorer are never called
\* and no list is returned.
C5_EmbeddingFailureAborts ==
    failure = "embedding" =>
        /\ pc = "raised"
        /\ calls = [NoCalls EXCEPT !.embed = 1]
        /\ exists = "unchecked"
        /\ result = <<>>
        /\ retrieved_docs = <<>>

C5_Witness == failure = "embedding" /\ pc = "raised" /\ calls.embed = 1

LexicalFailures == {"tokenize_corpus", "bm25_init", "tokenize_query", "get_scores"}

\* C6: when lexical scoring fails the query returns every deduplicated
\* candidate, each carrying a lexical score of 0.
C6_LexicalFailureScoresZero ==
    failure \in LexicalFailures =>
        /\ pc = "returned"
        /\ result # <<>>
        /\ Len(result) = Cardinality({HitText(n) : n \in 1..Len(vector_results)})
        /\ \A i \in 1..Len(result) :
              /\ "bm25_score" \in DOMAIN result[i]
              /\ result[i].bm25_score = 0

\* C7: when the collection of the language does not exist the query returns
\* an empty list, does not raise and sends no search to the vector store.
C7_MissingCollection ==
    exists = "no" =>
        /\ collection = (IF language = "arabic" THEN "rag_docs_ar" ELSE "rag_docs_en")
        /\ pc = "returned"
        /\ result = <<>>
        /\ failure = "none"
        /\ calls.search = 0

C7_Witness == exists = "no" /\ pc = "returned" /\ collection = "rag_docs_ar"

ZeroCandidates ==
    /\ calls.search = 1
    /\ failure = "none"
    /\ pc # "loop"
    /\ retrieved_docs = <<>>

\* C8: when the search succeeded and there is no candidate the query has
\* returned an empty list and tokenization, BM25 construction, scoring and
\* sorting have not been invoked.
C8_EmptyShortCircuits ==
    ZeroCandidates =>
        /\ pc = "returned"
        /\ result = <<>>
        /\ calls.tokenize = 0
        /\ calls.bm25 = 0
        /\ calls.get_scores = 0
        /\ calls.sort = 0

C8_Witness == ZeroCandidates /\ pc = "returned" /\ exists = "yes"

\* C9: two returned candidates with equal fused score keep the order in
\* which deduplication inserted them, the order of their first hits.
C9_StableOnTies ==
    Fused =>
        \A i, j \in 1..Len(result) :
            (i < j /\ StatedFused(result[i]) = StatedFused(result[j]))
                => FirstHit(result[i].text) < FirstHit(result[j].text)

\* two candidates tie and a third one, found first, ranks below them
C9_Witness ==
    /\ Fused
    /\ Len(result) = 3
    /\ StatedFused(result[1]) = StatedFused(result[2])
    /\ StatedFused(result[2]) > StatedFused(result[3])
    /\ FirstHit(result[3].text) = 1
    /\ FirstHit(result[1].text) < FirstHit(result[2].text)

BaseFields == {"text", "score", "source", "chunk_id", "total_chunks",
               "language", "key_phrases"}

\* C10: without a failure the returned list holds exactly one candidate per
\* distinct hit text, at most 20, each with the text, dense score and
\* metadata of its hit and nothing added but the lexical score.
C10_PermutationOfCandidates ==
    (pc = "returned" /\ failure = "none") =>
        LET firsts == {n \in 1..Len(vector_results) : IsFirstOccurrence(n)}
        IN  /\ Len(result) = Cardinality(firsts)
            /\ Len(result) <= 20
            /\ \A n \in firsts :
                  \E i \in 1..Len(result) :
                     LET hit == vector_results[n]
                         metadata == Get(hit.payload, "metadata", EmptyDict)
                     IN  /\ DOMAIN result[i] = BaseFields \cup {"bm25_score"}
                         /\ [k \in BaseFields |-> result[i][k]] =
                               [text         |-> HitText(n),
                                score        |-> hit.score,
                                source       |-> Get(metadata, "source", "Unknown"),
                                chunk_id     |-> Get(metadata, "chunk_id", 0),
                                total_chunks |-> Get(metadata, "total_chunks", 1),
                                language     |-> Get(metadata, "language", language),
                                key_phrases  |-> Get(metadata, "key_phrases", <<>>)]

\* three candidates were reordered, two of them with the same fused score
C10_Witness ==
    /\ pc = "returned"
    /\ failure = "none"
    /\ Len(vector_results) = 3
    /\ Len(result) = 3
    /\ result[1].text = HitText(3)
    /\ StatedFused(result[2]) = StatedFused(result[3])

=============================================================================
